---- MODULE Spec2Model ----
(***************************************************************************)
(* Model of github-repo-analyzer: the paginated API wrapper                *)
(* (wrapper.py), the analyzer (analyzer.py) and the presenter's analysis   *)
(* run (presenter.py).                                                     *)
(*                                                                         *)
(* Python strings that the code parses are sequences of tokens.  A token   *)
(* is one separator character ("<", ">", ";", "=", ",", " ", "\"", "'",    *)
(* "?", "&", "#"), one decimal digit, or a word: a maximal run of          *)
(* characters none of which is a separator or a digit the code looks at.   *)
(* Every string operation the code uses (split, strip, re.split, urlsplit, *)
(* parse_qsl, int) is modelled on these sequences as Python computes it.   *)
(***************************************************************************)
EXTENDS Integers, Sequences, FiniteSets, TLC

\* ------------------------------------------------------------------ bounds
MaxPages == 2       \* largest page count a Link header announces
MaxEntries == 3     \* most entries in a generated Link header
MaxRecords == 3     \* longest record list handed to an analyzer function
MaxTick == 1        \* most seconds the clock advances between two readings

\* ------------------------------------------------------- Python exceptions
Ok(v) == [ok |-> TRUE, val |-> v]
Raise(e) == [ok |-> FALSE, exc |-> e]

\* ----------------------------------------------------- string primitives
Digits == <<"0", "1", "2", "3", "4", "5", "6", "7", "8", "9">>
DigitSet == {Digits[i] : i \in 1..10}
DigitVal(t) == (CHOOSE i \in 1..10 : Digits[i] = t) - 1

RECURSIVE Numeral(_)
\* str(n) for n >= 0
Numeral(n) == IF n < 10 THEN <<Digits[n + 1]>>
              ELSE Numeral(n \div 10) \o <<Digits[(n % 10) + 1]>>

RECURSIVE Find(_, _, _)
\* index of the first token c in s at or after i, 0 when there is none
Find(s, c, i) == IF i > Len(s) THEN 0
                 ELSE IF s[i] = c THEN i ELSE Find(s, c, i + 1)

Tail_(s, i) == SubSeq(s, i, Len(s))

RECURSIVE split(_, _)
\* str.split(sep)
split(s, sep) == LET i == Find(s, sep, 1)
                 IN IF i = 0 THEN <<s>>
                    ELSE <<SubSeq(s, 1, i - 1)>> \o split(Tail_(s, i + 1), sep)

\* str.split(sep, 1)
split1(s, sep) == LET i == Find(s, sep, 1)
                  IN IF i = 0 THEN <<s>>
                     ELSE <<SubSeq(s, 1, i - 1), Tail_(s, i + 1)>>

RECURSIVE lstrip(_, _)
lstrip(s, chars) == IF s # <<>> /\ Head(s) \in chars THEN lstrip(Tail(s), chars)
                    ELSE s

RECURSIVE rstrip(_, _)
rstrip(s, chars) == IF s # <<>> /\ s[Len(s)] \in chars
                    THEN rstrip(SubSeq(s, 1, Len(s) - 1), chars)
                    ELSE s

\* str.strip(chars)
strip(s, chars) == rstrip(lstrip(s, chars), chars)

RECURSIVE SkipSpaces(_, _)
SkipSpaces(s, i) == IF i <= Len(s) /\ s[i] = " " THEN SkipSpaces(s, i + 1) ELSE i

\* end of a match of the regular expression ", *<" starting at i, 0 if none
MatchEnd(s, i) == IF s[i] # "," THEN 0
                  ELSE LET j == SkipSpaces(s, i + 1)
                       IN IF j <= Len(s) /\ s[j] = "<" THEN j ELSE 0

RECURSIVE FindMatch(_, _)
FindMatch(s, i) == IF i > Len(s) THEN 0
                   ELSE IF MatchEnd(s, i) # 0 THEN i ELSE FindMatch(s, i + 1)

RECURSIVE re_split(_)
\* re.split(", *<", s)
re_split(s) == LET i == FindMatch(s, 1)
               IN IF i = 0 THEN <<s>>
                  ELSE <<SubSeq(s, 1, i - 1)>> \o re_split(Tail_(s, MatchEnd(s, i) + 1))

\* urlsplit(url).query: the fragment is cut at the first "#", then the
\* query is what follows the first "?"
urlsplit_query(url) == LET nofrag == split1(url, "#")[1]
                           parts == split1(nofrag, "?")
                       IN IF Len(parts) = 2 THEN parts[2] ELSE <<>>

RECURSIVE parse_qsl_pairs(_, _)
\* dict(parse_qsl(query)): pairs without "=" or with an empty value are
\* skipped, a later pair overrides an earlier one of the same name
parse_qsl_pairs(pairs, d) ==
    IF pairs = <<>> THEN d
    ELSE LET nv == split1(Head(pairs), "=")
         IN IF Len(nv) # 2 \/ nv[2] = <<>>
            THEN parse_qsl_pairs(Tail(pairs), d)
            ELSE parse_qsl_pairs(Tail(pairs),
                     [k \in DOMAIN d \cup {nv[1]} |->
                         IF k = nv[1] THEN nv[2] ELSE d[k]])

EmptyDict == [k \in {} |-> <<>>]

dict_parse_qsl(query) == parse_qsl_pairs(split(query, "&"), EmptyDict)

RECURSIVE DigitsValue(_, _)
DigitsValue(s, acc) == IF s = <<>> THEN acc
                       ELSE DigitsValue(Tail(s), 10 * acc + DigitVal(Head(s)))

\* int(s): surrounding whitespace is ignored; anything but a non-empty run
\* of digits raises ValueError
int(s) == LET t == strip(s, {" "})
          IN IF t # <<>> /\ \A i \in 1..Len(t) : t[i] \in DigitSet
             THEN Ok(DigitsValue(t, 0))
             ELSE Raise("ValueError")

\* --------------------------------------------- wrapper._get_pages_count
replace_chars == {" ", "'", "\""}

Unbound == [bound |-> FALSE]
Bound(n) == [bound |-> TRUE, val |-> n]

IsLastRel_next(link) == link[<<"rel">>] = <<"next">>

\* wrapper.py:148, link['rel'] == 'last'
IsLastRel(link) == link[<<"rel">>] = <<"last">>

RECURSIVE ParamLoop(_, _, _, _)
\* the inner loop over params.split(";"); yields Ok(pages_count) or Raise(..)
ParamLoop(params, j, link, pages_count) ==
    IF j > Len(params) THEN Ok(pages_count)
    ELSE LET kv == split(params[j], "=")
         IN IF Len(kv) # 2 THEN Ok(pages_count)
            ELSE LET key == strip(kv[1], replace_chars)
                     link2 == [k \in DOMAIN link \cup {key} |->
                                  IF k = key THEN strip(kv[2], replace_chars)
                                  ELSE link[k]]
                     parsed_result == dict_parse_qsl(urlsplit_query(link2[<<"url">>]))
                 IN IF <<"rel">> \notin DOMAIN link2 THEN Raise("KeyError")
                    ELSE IF ~IsLastRel(link2)
                         THEN ParamLoop(params, j + 1, link2, pages_count)
                    ELSE IF <<"page">> \notin DOMAIN parsed_result
                         THEN Raise("KeyError")
                    ELSE LET n == int(parsed_result[<<"page">>])
                         IN IF ~n.ok THEN n
                            ELSE ParamLoop(params, j + 1, link2, Bound(n.val))

RECURSIVE EntryLoop(_, _, _)
\* the outer loop over re.split(", *<", value)
EntryLoop(vals, i, pages_count) ==
    IF i > Len(vals)
    THEN IF pages_count.bound THEN Ok(pages_count.val)
         ELSE Raise("UnboundLocalError")
    ELSE LET sp == split1(vals[i], ";")
             url == sp[1]
             params == IF Len(sp) = 2 THEN sp[2] ELSE <<>>
             link == [k \in {<<"url">>} |-> strip(url, {"<", ">", " ", "'", "\""})]
             r == ParamLoop(split(params, ";"), 1, link, pages_count)
         IN IF ~r.ok THEN r ELSE EntryLoop(vals, i + 1, r.val)

_get_pages_count(value) == EntryLoop(re_split(value), 1, Unbound)

\* ------------------------------------------------------- Python values
None == [type |-> "NoneType"]
List(items) == [type |-> "list", items |-> items]
Str(v) == [type |-> "str", value |-> v]
isinstance(x, t) == x.type = t

\* ----------------------------------------------- analyzer.count_contributors
\* A commit record of the API: `author` is null or an object with a login
\* (a JSON array is the third shape the code tests for), `commit.author.name`
\* is the name embedded in the commit.
Names == {"alice", "bob"}
AuthorShapes == {None, List(<<>>)} \cup {[type |-> "dict", login |-> l] : l \in Names}
CommitRecords == {[type |-> "dict", author |-> a,
                   commit |-> [author |-> [name |-> n]]] :
                      a \in AuthorShapes, n \in Names}

\* obj[key] for a string key: only a dict can be indexed by a string
Subscript(obj, key) == IF isinstance(obj, "dict") THEN Ok(obj[key])
                       ELSE Raise("TypeError")

\* analyzer.py:41-45, the author key of one commit record
author_key(co) ==
    LET a == Subscript(co, "author")
    IN IF ~a.ok THEN a
       ELSE IF isinstance(a.val, "list")
            THEN Subscript(a.val, "login")
            ELSE Ok(co.commit.author.name)

RECURSIVE authors_of(_, _)
\* the loop of analyzer.py:40-46: the list `authors`, or the exception
authors_of(contributors, authors) ==
    IF contributors = <<>> THEN Ok(authors)
    ELSE LET a == author_key(Head(contributors))
         IN IF ~a.ok THEN a
            ELSE authors_of(Tail(contributors), Append(authors, a.val))

\* A Counter is the sequence of its (key, count) items in insertion order.
CounterIndex(items, k) ==
    IF \E i \in 1..Len(items) : items[i][1] = k
    THEN CHOOSE i \in 1..Len(items) : items[i][1] = k
    ELSE 0

CounterGet(items, k) == LET i == CounterIndex(items, k)
                        IN IF i = 0 THEN 0 ELSE items[i][2]

RECURSIVE CounterUpdate(_, _)
\* Counter.update(iterable)
CounterUpdate(items, keys) ==
    IF keys = <<>> THEN items
    ELSE LET k == Head(keys)
             i == CounterIndex(items, k)
         IN CounterUpdate(IF i = 0 THEN Append(items, <<k, 1>>)
                          ELSE [items EXCEPT ![i] = <<k, items[i][2] + 1>>],
                          Tail(keys))

ContributorsCounter(items) == [type |-> "Counter", items |-> items]

\* Ok(Counter) or the exception raised
count_contributors(contributors) ==
    LET authors == authors_of(contributors, <<>>)
    IN IF ~authors.ok THEN authors
       ELSE Ok(ContributorsCounter(CounterUpdate(<<>>, authors.val)))

\* ------------------------------------------------- analyzer.count_resources
DaySecs == 86400

\* A timestamp string "%Y-%m-%dT%H:%M:%SZ" is its date (days since the
\* epoch) and its time of day (seconds); strptime yields the instant.
Timestamp(t) == [date |-> t \div DaySecs, time |-> t % DaySecs]
strptime(s) == s.date * DaySecs + s.time

\* timedelta.days of (a - b): the floor of the difference in days
days_between(a, b) == (a - b) \div DaySecs

ResourceCounter(o, c, s) == [type |-> "Counter", opened |-> o, closed |-> c, old |-> s]

IsOld_ge(delta, max_days) == delta >= max_days

\* analyzer.py:81, delta > max_days
IsOld(delta, max_days) == delta > max_days

RECURSIVE resources_loop(_, _, _, _, _)
\* the loop of analyzer.py:70-84; clock[i] is the reading of self._now
\* taken while record i is processed
resources_loop(resources, i, max_days, clock, cnt) ==
    IF i > Len(resources) THEN Ok(cnt)
    ELSE LET res == resources[i]
             state == Subscript(res, "state")
         IN IF ~state.ok THEN state
            ELSE LET created == strptime(res.created_at)
                     delta == days_between(clock[i], created)
                 IN IF state.val = "open"
                    THEN resources_loop(resources, i + 1, max_days, clock,
                             ResourceCounter(cnt.opened + 1, cnt.closed,
                                 IF IsOld(delta, max_days) THEN cnt.old + 1
                                 ELSE cnt.old))
                    ELSE IF state.val = "closed"
                    THEN resources_loop(resources, i + 1, max_days, clock,
                             ResourceCounter(cnt.opened, cnt.closed + 1, cnt.old))
                    ELSE resources_loop(resources, i + 1, max_days, clock, cnt)

NothingToCount_opened(cnt) == cnt.opened = 0

\* analyzer.py:87-91
NothingToCount(cnt) == cnt.opened = 0 /\ cnt.closed = 0 /\ cnt.old = 0

\* Ok(Counter), Ok(None) or the exception raised
count_resources(resources, max_days, clock) ==
    LET r == resources_loop(resources, 1, max_days, clock, ResourceCounter(0, 0, 0))
    IN IF ~r.ok THEN r
       ELSE IF NothingToCount(r.val) THEN Ok(None) ELSE r

\* ------------------------------------------------- wrapper.__init__
\* A repository URL is a token sequence with the separators ":" and "/".
RepoUrls == {<<"https", ":", "/", "/", "github.com", "/", "octo", "/", "repo">>,
             <<"github.com", "/", "octo", "/", "repo">>}

RECURSIVE FindSlashSlash(_, _)
\* index of the first "//" in s at or after i, 0 when there is none
FindSlashSlash(s, i) == IF i + 1 > Len(s) THEN 0
                        ELSE IF s[i] = "/" /\ s[i + 1] = "/" THEN i
                        ELSE FindSlashSlash(s, i + 1)

\* urlparse(url): scheme, netloc and path
urlparse(url) ==
    LET c == Find(url, ":", 1)
        hasScheme == c = 2 /\ url[1] \notin {"/", ":"}
        scheme == IF hasScheme THEN <<url[1]>> ELSE <<>>
        rest == IF hasScheme THEN Tail_(url, 3) ELSE url
        hasNetloc == Len(rest) >= 2 /\ rest[1] = "/" /\ rest[2] = "/"
        afterSlashes == IF hasNetloc THEN Tail_(rest, 3) ELSE rest
        e == Find(afterSlashes, "/", 1)
        netloc == IF ~hasNetloc THEN <<>>
                  ELSE IF e = 0 THEN afterSlashes
                  ELSE SubSeq(afterSlashes, 1, e - 1)
        path == IF ~hasNetloc THEN rest
                ELSE IF e = 0 THEN <<>> ELSE Tail_(afterSlashes, e)
    IN [scheme |-> scheme, netloc |-> netloc, path |-> path]

UrlIsValid(result) == result.scheme # <<>> /\ result.netloc # <<>> /\ result.path # <<>>

\* wrapper.py:51-63, self.repo; the generated URLs have an owner and a title
\* segment, so repo_url.split('//')[1].split('/') has its items 1 and 2
wrapper_init(repo_url) ==
    LET result == urlparse(repo_url)
    IN IF UrlIsValid(result)
       THEN LET i == FindSlashSlash(repo_url, 1)
                parsed_repo_url == split(Tail_(repo_url, i + 2), "/")
            IN [url |-> Str(repo_url),
                owner |-> Str(parsed_repo_url[2]),
                title |-> Str(parsed_repo_url[3])]
       ELSE [url |-> None, owner |-> None, title |-> None]

\* str.format of a field: None is rendered as the word "None"
format(v) == IF isinstance(v, "NoneType") THEN <<"None">> ELSE v.value

\* wrapper.py:105-116; qs is the sequence of (key, value) pairs of the query
\* string (the date filters are unset)
_compose_full_api_request_url(rp, resource, qs) ==
    [path |-> <<"https://api.github.com", "/", "repos", "/">> \o format(rp.owner)
                 \o <<"/">> \o format(rp.title) \o <<"/", resource>>,
     qs |-> qs]

\* ------------------------------------------------- wrapper._api_request
PyInt(n) == [type |-> "int", value |-> n]
BanInfo == "banned by GitHub"

\* wrapper.py:187-200, the error value built from an HTTPError
ErrorDict(code) == [type |-> "dict", success |-> FALSE, code |-> code,
                    message |-> IF code = 403 THEN <<"HTTPError", BanInfo>>
                                ELSE <<"HTTPError">>]

Truthy(link_header) == isinstance(link_header, "str") /\ link_header.value # <<>>

\* wrapper.py:185-216: what _api_request returns, or raises, for the
\* response resp of the transport
_api_request(method, resp) ==
    IF resp.kind = "URLError" THEN Raise("URLError")
    ELSE IF resp.kind = "HTTPError" THEN Ok(ErrorDict(resp.code))
    ELSE IF method = "HEAD"
         THEN IF Truthy(resp.link)
              THEN LET n == _get_pages_count(resp.link.value)
                   IN IF n.ok THEN Ok(PyInt(n.val)) ELSE n
              ELSE Ok(PyInt(0))
         ELSE Ok(List(resp.body))

\* --------------------------------- presenter._create_contributors_list
\* Python compares strings by code point; NameOrder lists the author keys
\* that way (an upper-case letter comes before every lower-case one).
NameOrder == <<"Zed", "alice", "bob">>
StrRank(n) == CHOOSE i \in 1..Len(NameOrder) : NameOrder[i] = n

RECURSIVE InsertStable(_, _, _, _)
\* x goes behind every element whose key is not greater than its own
InsertStable(s, x, key, i) ==
    IF i > Len(s) THEN Append(s, x)
    ELSE IF key[s[i]] > key[x]
         THEN SubSeq(s, 1, i - 1) \o <<x>> \o Tail_(s, i)
         ELSE InsertStable(s, x, key, i + 1)

RECURSIVE SortedInto(_, _, _)
SortedInto(done, todo, key) ==
    IF todo = <<>> THEN done
    ELSE SortedInto(InsertStable(done, Head(todo), key, 1), Tail(todo), key)

Range(s) == {s[i] : i \in 1..Len(s)}

\* sorted(s, key=...): stable, ascending in key
sorted(s, key) == SortedInto(<<>>, s, key)

RECURSIVE SumCommits(_)
SumCommits(items) == IF items = <<>> THEN 0
                     ELSE Head(items)[2] + SumCommits(Tail(items))

_create_contributors_list_swapped(cnt, old_list, old_sum) ==
    LET appended == old_list \o [i \in 1..Len(cnt.items) |->
                        [author |-> cnt.items[i][1], commits |-> cnt.items[i][2]]]
        byCommits == sorted(appended, [c \in Range(appended) |-> 0 - c.commits])
        byAuthor == sorted(byCommits, [c \in Range(appended) |-> StrRank(c.author)])
    IN [contributors_list |-> byAuthor,
        commits_sum |-> old_sum + SumCommits(cnt.items)]

\* presenter.py:89-100: the new (contributors_list, commits_sum)
_create_contributors_list(cnt, old_list, old_sum) ==
    LET appended == old_list \o [i \in 1..Len(cnt.items) |->
                        [author |-> cnt.items[i][1], commits |-> cnt.items[i][2]]]
        byAuthor == sorted(appended, [c \in Range(appended) |-> StrRank(c.author)])
        byCommits == sorted(byAuthor, [c \in Range(appended) |-> 0 - c.commits])
    IN [contributors_list |-> byCommits,
        commits_sum |-> old_sum + SumCommits(cnt.items)]

\* ------------------------------------------------------ the API (transport)
Now0 == 100 * DaySecs + 43200      \* the instant of the first clock reading
old_pulls_days == 30
old_issues_days == 14

LinkUrl(n) == <<"<", "https://api.github.com/repositories/1/items", "?",
                "per_page", "=", "1", "0", "0", "&", "page", "=">>
              \o Numeral(n) \o <<">">>

\* one entry of a Link header: <url>; rel="name", a bare <url>, or
\* <url>; title="name"
LinkEntry(e) == IF e.attr = "none" THEN LinkUrl(e.page)
                ELSE LinkUrl(e.page) \o <<";", " ", e.attr, "=", "\"", e.name, "\"">>

RECURSIVE LinkHeader(_, _)
\* the entries joined by sep ("," with or without a blank)
LinkHeader(entries, sep) ==
    IF Len(entries) = 1 THEN LinkEntry(entries[1])
    ELSE LinkEntry(Head(entries)) \o sep \o LinkHeader(Tail(entries), sep)

Rel(name, n) == [attr |-> "rel", name |-> name, page |-> n]

\* Link headers of the discovery responses of a run: absent, the first
\* page of an n-page result, and one that names no last page
RunLinks == {None}
            \cup {Str(LinkHeader(<<Rel("next", 2), Rel("last", n)>>, <<",", " ">>)) :
                     n \in 1..MaxPages}
            \cup {Str(LinkHeader(<<Rel("next", 2)>>, <<",", " ">>))}

\* the error statuses served: a missing repository, and the rate limit,
\* which hits the first request of a fetch
HeadCodes == {403, 404}
GetCodes == {404}

HeadResponses == {[kind |-> "ok", link |-> l] : l \in RunLinks}
                 \cup {[kind |-> "HTTPError", code |-> c] : c \in HeadCodes}
                 \cup {[kind |-> "URLError"]}

Commit(author, name) == [type |-> "dict", author |-> author,
                         commit |-> [author |-> [name |-> name]]]
Login(l) == [type |-> "dict", login |-> l]
Resource(state, t) == [type |-> "dict", state |-> state, created_at |-> Timestamp(t)]

\* the page bodies the API serves for each resource: two different pages
\* of commits, one page of pulls and one of issues
Bodies(resource) ==
    IF resource = "commits"
    THEN {<<Commit(Login("alice"), "bob")>>,
          <<Commit(None, "bob"), Commit(Login("bob"), "alice")>>}
    ELSE IF resource = "pulls"
    THEN {<<Resource("open", Now0 - (old_pulls_days + 1) * DaySecs),
            Resource("closed", Now0),
            Resource("open", Now0 - old_pulls_days * DaySecs)>>}
    ELSE {<<Resource("open", Now0 - (old_issues_days + 1) * DaySecs),
            Resource("merged", Now0)>>}

GetResponses(resource) == {[kind |-> "ok", body |-> b] : b \in Bodies(resource)}
                          \cup {[kind |-> "HTTPError", code |-> c] : c \in GetCodes}
                          \cup {[kind |-> "URLError"]}

\* ------------------------------------------------------------- the state
VARIABLES
    repo,               \* wrapper.repo
    pc,                 \* where the run stands: "probe", "retrieve",
                        \* "aggregate", "returned" (from _prepare), "raised",
                        \* "presented" (present() is over)
    kind,               \* index in Kinds of the resource being fetched
    qs,                 \* the query-string dict of the running fetch
    pages_count,        \* what the discovery request returned
    page,               \* the loop variable of the retrieval loop
    acc,                \* the local list `commits` / `resources`
    data,               \* commits_data, pulls_data, issues_data of _prepare
    log,                \* every request handed to urlopen, with its response
    counters,           \* presenter.counters
    contributors_list,  \* presenter.contributors_list
    commits_sum,        \* presenter.commits_sum
    prepare,            \* what _prepare returned: "pending", "True", "False"
    exc,                \* the exception that left the run, "" if none
    call,               \* a single call of a pure function: its arguments
    ret,                \* ... and what it returned
    contributors_max,   \* presenter.contributors_max
    table,              \* the rows present() handed to _print_table, or None
    run,                \* how many times present() was called on the presenter
    prev                \* the previous run: its log and the results it left

vars == <<repo, pc, kind, qs, pages_count, page, acc, data, log, counters,
          contributors_list, commits_sum, prepare, exc, call, ret,
          contributors_max, table, run, prev>>

\* presenter.py:29, the default of contributors_max
contributors_max_default == 30
NoPrev == [log |-> <<>>, contributors_list |-> <<>>, commits_sum |-> 0]

Kinds == <<"commits", "pulls", "issues">>
NoCall == [fn |-> "none"]

\* presenter.py:69-76 and the locals of a run that has not started
InitRun(p) ==
    /\ pc = p
    /\ kind = 1
    /\ qs = EmptyDict
    /\ pages_count = None
    /\ page = 0
    /\ acc = None
    /\ data = [k \in 1..3 |-> None]
    /\ log = <<>>
    /\ counters = [contributors |-> None, pulls |-> None, issues |-> None]
    /\ contributors_list = <<>>
    /\ commits_sum = 0
    /\ prepare = "pending"
    /\ exc = ""
    /\ table = None
    /\ run = 1
    /\ prev = NoPrev

Init ==
    /\ \E u \in RepoUrls : repo = wrapper_init(u)
    /\ InitRun("probe")
    /\ contributors_max = contributors_max_default
    /\ call = NoCall
    /\ ret = NoCall

\* ------------------------------------------- wrapper.get_commits / get_resources
\* wrapper.py:236-247 and 288-300
InitialQs(resource) ==
    IF resource = "commits"
    THEN [k \in {"per_page", "sha"} |-> IF k = "per_page" THEN 100 ELSE "master"]
    ELSE [k \in {"state", "per_page", "base"} |->
             IF k = "state" THEN "all" ELSE IF k = "per_page" THEN 100 ELSE "master"]

DictSet(d, k, v) == [x \in DOMAIN d \cup {k} |-> IF x = k THEN v ELSE d[x]]

\* the log entry of one urlopen call
Sent(method, q, resp) ==
    [method |-> method, resource |-> Kinds[kind],
     url |-> _compose_full_api_request_url(repo, Kinds[kind], q), resp |-> resp]

\* list += x: a list is extended by the items of a list, or by the keys of a dict
ErrorKeys == <<Str("success"), Str("code"), Str("message")>>
Extended_prepend(items, x) == IF isinstance(x, "list") THEN x.items \o items
                              ELSE ErrorKeys \o items

Extended(items, x) == IF isinstance(x, "list") THEN items \o x.items
                      ELSE items \o ErrorKeys

IsError(v) == isinstance(v, "dict") /\ ~v.success

Ctl == [pc |-> pc, kind |-> kind, prepare |-> prepare, exc |-> exc, data |-> data]

SetCtl(c) ==
    /\ pc' = c.pc
    /\ kind' = c.kind
    /\ prepare' = c.prepare
    /\ exc' = c.exc
    /\ data' = c.data

\* an exception leaves the fetch, _prepare and present
RaisedCtl(e) == [Ctl EXCEPT !.pc = "raised", !.exc = e]

ReturnedCtl_goon(value) ==
    LET d == [data EXCEPT ![kind] = value]
    IN IF ~isinstance(value, "list") /\ kind = 3
       THEN [Ctl EXCEPT !.data = d, !.pc = "returned", !.prepare = "False"]
       ELSE IF kind < 3
       THEN [Ctl EXCEPT !.data = d, !.pc = "probe", !.kind = kind + 1]
       ELSE [Ctl EXCEPT !.data = d, !.pc = "aggregate"]

ReturnedCtl_skip(value) ==
    LET d == [data EXCEPT ![kind] = value]
    IN IF ~isinstance(value, "list") /\ kind < 3
       THEN [Ctl EXCEPT !.data = d, !.pc = "returned", !.prepare = "False"]
       ELSE IF kind < 3
       THEN [Ctl EXCEPT !.data = d, !.pc = "probe", !.kind = kind + 1]
       ELSE [Ctl EXCEPT !.data = d, !.pc = "aggregate"]

\* presenter.py:162-178: the fetch of Kinds[kind] returned value
ReturnedCtl(value) ==
    LET d == [data EXCEPT ![kind] = value]
    IN IF ~isinstance(value, "list")
       THEN [Ctl EXCEPT !.data = d, !.pc = "returned", !.prepare = "False"]
       ELSE IF kind < 3
       THEN [Ctl EXCEPT !.data = d, !.pc = "probe", !.kind = kind + 1]
       ELSE [Ctl EXCEPT !.data = d, !.pc = "aggregate"]

\* what the API may answer to the next request: anything in a first run,
\* and in a later run, against unchanged data, what it answered to the same
\* request of the run before
Served(responses) ==
    IF run = 1 THEN responses
    ELSE IF Len(log) < Len(prev.log) THEN {prev.log[Len(log) + 1].resp}
    ELSE {}

\* wrapper.py:236-256 / 288-309: the discovery request of a fetch
Probe ==
    /\ pc = "probe"
    /\ \E resp \in Served(HeadResponses) :
         LET q == InitialQs(Kinds[kind])
             r == _api_request("HEAD", resp)
         IN /\ log' = Append(log, Sent("HEAD", q, resp))
            /\ qs' = q
            /\ page' = 0
            /\ IF ~r.ok
               THEN /\ SetCtl(RaisedCtl(r.exc))
                    /\ UNCHANGED <<pages_count, acc>>
               ELSE /\ pages_count' = r.val
                    /\ IF IsError(r.val)
                       THEN SetCtl(ReturnedCtl(r.val)) /\ UNCHANGED acc
                       ELSE SetCtl([Ctl EXCEPT !.pc = "retrieve"]) /\ acc' = List(<<>>)
    /\ UNCHANGED <<repo, counters, contributors_list, commits_sum, call, ret>>
    /\ UNCHANGED <<contributors_max, table, run, prev>>

\* wrapper.py:261, qs['page'] = page + 1
NextPage(p) == p + 1

\* wrapper.py:259-263 / 312-316: one iteration of the retrieval loop; the
\* last one returns the list to _prepare
GetPage ==
    /\ pc = "retrieve"
    /\ pages_count.value > 0
    /\ \E resp \in Served(GetResponses(Kinds[kind])) :
         LET q == DictSet(qs, "page", NextPage(page))
             r == _api_request("GET", resp)
         IN /\ log' = Append(log, Sent("GET", q, resp))
            /\ qs' = q
            /\ IF ~r.ok
               THEN /\ SetCtl(RaisedCtl(r.exc))
                    /\ UNCHANGED <<acc, page>>
               ELSE LET a == List(Extended(acc.items, r.val))
                    IN /\ acc' = a
                       /\ page' = page + 1
                       /\ IF page + 1 >= pages_count.value
                          THEN SetCtl(ReturnedCtl(a))
                          ELSE SetCtl(Ctl)
    /\ UNCHANGED <<repo, pages_count, counters, contributors_list, commits_sum,
                   call, ret>>
    /\ UNCHANGED <<contributors_max, table, run, prev>>

\* wrapper.py:265-266 / 318-319: the single request of an unpaginated fetch
GetSingle ==
    /\ pc = "retrieve"
    /\ ~(pages_count.value > 0)
    /\ \E resp \in Served(GetResponses(Kinds[kind])) :
         LET r == _api_request("GET", resp)
         IN /\ log' = Append(log, Sent("GET", qs, resp))
            /\ IF ~r.ok
               THEN SetCtl(RaisedCtl(r.exc)) /\ UNCHANGED acc
               ELSE acc' = r.val /\ SetCtl(ReturnedCtl(r.val))
    /\ UNCHANGED <<repo, qs, pages_count, page, counters, contributors_list,
                   commits_sum, call, ret>>
    /\ UNCHANGED <<contributors_max, table, run, prev>>

\* the readings of self._now during one count_resources call over n records:
\* the clock starts at Now0 + t0 and is d later from record k on
Clock(n, t0, k, d) == [i \in 1..n |-> Now0 + t0 + (IF i >= k THEN d ELSE 0)]

\* presenter.py:180-193: the aggregation; an exception of a later step
\* leaves the earlier assignments in place
Aggregate ==
    /\ pc = "aggregate"
    /\ \E t \in 0..MaxTick :
         LET c == count_contributors(data[1].items)
             p == count_resources(data[2].items, old_pulls_days,
                                  Clock(Len(data[2].items), t, 1, 0))
             i == count_resources(data[3].items, old_issues_days,
                                  Clock(Len(data[3].items), t, 1, 0))
         IN IF ~c.ok
            THEN /\ SetCtl(RaisedCtl(c.exc))
                 /\ UNCHANGED <<counters, contributors_list, commits_sum>>
            ELSE IF ~p.ok
            THEN /\ SetCtl(RaisedCtl(p.exc))
                 /\ counters' = [counters EXCEPT !.contributors = c.val]
                 /\ UNCHANGED <<contributors_list, commits_sum>>
            ELSE IF ~i.ok
            THEN /\ SetCtl(RaisedCtl(i.exc))
                 /\ counters' = [counters EXCEPT !.contributors = c.val,
                                                 !.pulls = p.val]
                 /\ UNCHANGED <<contributors_list, commits_sum>>
            ELSE LET l == _create_contributors_list(c.val, contributors_list,
                                                    commits_sum)
                 IN /\ counters' = [contributors |-> c.val, pulls |-> p.val,
                                    issues |-> i.val]
                    /\ contributors_list' = l.contributors_list
                    /\ commits_sum' = l.commits_sum
                    /\ SetCtl([Ctl EXCEPT !.pc = "returned", !.prepare = "True"])
    /\ UNCHANGED <<repo, qs, pages_count, page, acc, log, call, ret>>
    /\ UNCHANGED <<contributors_max, table, run, prev>>

\* list[:m]
Slice(l, m) == IF m >= 0 THEN SubSeq(l, 1, IF m < Len(l) THEN m ELSE Len(l))
               ELSE SubSeq(l, 1, Len(l) + m)

\* presenter.py:210-229: present() after _prepare returned; the table of
\* contributors is printed when the run succeeded and the list is not empty
\* (_print_table rewrites each author with _safe_str, which leaves the
\* ASCII names of the model as they are)
Present ==
    /\ pc = "returned"
    /\ pc' = "presented"
    /\ table' = IF prepare = "True" /\ contributors_list # <<>>
                THEN List(Slice(contributors_list, contributors_max))
                ELSE None
    /\ UNCHANGED <<repo, kind, qs, pages_count, page, acc, data, log, counters,
                   contributors_list, commits_sum, prepare, exc, call, ret,
                   contributors_max, run, prev>>

Next == Probe \/ GetPage \/ GetSingle \/ Aggregate \/ Present

Spec == Init /\ [][Next]_vars

MaxRuns == 2

\* presenter.py:210 and 160-162: present() is called once more on the same
\* presenter; the locals of present, _prepare and the fetches start afresh,
\* the presenter keeps counters, contributors_list and commits_sum
\* (assigned in __init__ only, presenter.py:69-76), and the API will answer
\* as it did to the run that is over
Rerun ==
    /\ pc = "presented"
    /\ run < MaxRuns
    /\ run' = run + 1
    /\ prev' = [log |-> log, contributors_list |-> contributors_list,
                commits_sum |-> commits_sum]
    /\ pc' = "probe"
    /\ kind' = 1
    /\ qs' = EmptyDict
    /\ pages_count' = None
    /\ page' = 0
    /\ acc' = None
    /\ data' = [k \in 1..3 |-> None]
    /\ log' = <<>>
    /\ prepare' = "pending"
    /\ exc' = ""
    /\ table' = None
    /\ UNCHANGED <<repo, counters, contributors_list, commits_sum,
                   contributors_max, call, ret>>

NextRerun == Next \/ Rerun

SpecRerun == Init /\ [][NextRerun]_vars

\* presenter.py:79: the values of contributors_max a caller may construct the
\* presenter with; int() takes any integer, negative ones included
ShownVals == {-1, 1, contributors_max_default}

\* a presenter constructed with each contributors_max, over a valid
\* repository URL or an invalid one
InitShown ==
    /\ \E u \in RepoUrls : repo = wrapper_init(u)
    /\ InitRun("probe")
    /\ contributors_max \in ShownVals
    /\ call = NoCall
    /\ ret = NoCall

SpecShown == InitShown /\ [][Next]_vars

\* ------------------------------------------- calls of the pure functions
\* The inputs of _get_pages_count: Link headers of up to MaxEntries entries.
BigPage == 12
PageVals == {2, 5, BigPage}
RelNames == {"first", "prev", "next", "last"}
LinkEntries == {Rel(name, n) : name \in RelNames, n \in PageVals}
               \cup {[attr |-> "none", name |-> "", page |-> n] : n \in PageVals}
               \cup {[attr |-> "title", name |-> "x", page |-> n] : n \in PageVals}
EntryLists == UNION {[1..n -> LinkEntries] : n \in 1..MaxEntries}
Separators == {<<",">>, <<",", " ">>}

InitLink ==
    /\ repo = wrapper_init(CHOOSE u \in RepoUrls : Len(u) > 5)
    /\ InitRun("call")
    /\ contributors_max = contributors_max_default
    /\ \E es \in EntryLists, sep \in Separators :
         call = [fn |-> "_get_pages_count", entries |-> es, sep |-> sep,
                 value |-> LinkHeader(es, sep)]
    /\ ret = NoCall

Called(r) ==
    /\ pc = "call"
    /\ pc' = "called"
    /\ ret' = r
    /\ UNCHANGED <<repo, kind, qs, pages_count, page, acc, data, log, counters,
                   contributors_list, commits_sum, prepare, exc, call>>
    /\ UNCHANGED <<contributors_max, table, run, prev>>

CallPagesCount == call.fn = "_get_pages_count" /\ Called(_get_pages_count(call.value))

SpecLink == InitLink /\ [][CallPagesCount]_vars

\* The inputs of count_resources: open records created d days before Now0,
\* to the second or one second off, one closed and one other record; a
\* threshold; a clock that ticks once, before record k.
MaxDays == 1
ResourceSpecs == {[state |-> "open", t |-> Now0 - d * DaySecs + e] :
                     d \in 0..(MaxDays + 1), e \in {-1, 0, 1}}
                 \cup {[state |-> "closed", t |-> Now0 - (MaxDays + 1) * DaySecs],
                       [state |-> "merged", t |-> Now0 - (MaxDays + 1) * DaySecs]}
ResourceLists == UNION {[1..n -> ResourceSpecs] : n \in 0..MaxRecords}

InitResources ==
    /\ repo = wrapper_init(CHOOSE u \in RepoUrls : Len(u) > 5)
    /\ InitRun("call")
    /\ contributors_max = contributors_max_default
    /\ \E rs \in ResourceLists, m \in 0..MaxDays, k \in 1..(MaxRecords + 1) :
         /\ k <= Len(rs) + 1
         /\ call = [fn |-> "count_resources", specs |-> rs,
                    resources |-> [i \in 1..Len(rs) |-> Resource(rs[i].state, rs[i].t)],
                    max_days |-> m,
                    clock |-> Clock(Len(rs), 0, k, MaxTick)]
    /\ ret = NoCall

CallCountResources ==
    /\ call.fn = "count_resources"
    /\ Called(count_resources(call.resources, call.max_days, call.clock))

SpecResources == InitResources /\ [][CallCountResources]_vars

\* The inputs of count_contributors: commit records of every author shape.
CommitLists == UNION {[1..n -> CommitRecords] : n \in 0..MaxRecords}

InitContributors ==
    /\ repo = wrapper_init(CHOOSE u \in RepoUrls : Len(u) > 5)
    /\ InitRun("call")
    /\ contributors_max = contributors_max_default
    /\ \E cs \in CommitLists : call = [fn |-> "count_contributors", contributors |-> cs]
    /\ ret = NoCall

CallCountContributors ==
    /\ call.fn = "count_contributors"
    /\ Called(count_contributors(call.contributors))

SpecContributors == InitContributors /\ [][CallCountContributors]_vars

\* The inputs of _create_contributors_list on a fresh presenter: a Counter
\* of distinct author keys in any insertion order, 1..MaxCommits commits each.
MaxCommits == 2
KeyOrders == {o \in UNION {[1..n -> Range(NameOrder)] : n \in 0..Len(NameOrder)} :
                 \A i, j \in 1..Len(o) : i # j => o[i] # o[j]}
CounterInputs == UNION {{[i \in 1..Len(o) |-> <<o[i], c[i]>>] :
                            c \in [1..Len(o) -> 1..MaxCommits]} : o \in KeyOrders}

InitList ==
    /\ repo = wrapper_init(CHOOSE u \in RepoUrls : Len(u) > 5)
    /\ InitRun("call")
    /\ contributors_max = contributors_max_default
    /\ \E items \in CounterInputs :
         call = [fn |-> "_create_contributors_list",
                 contributors |-> ContributorsCounter(items)]
    /\ ret = NoCall

CallCreateContributorsList ==
    /\ call.fn = "_create_contributors_list"
    /\ Called(_create_contributors_list(call.contributors, contributors_list,
                                        commits_sum))

SpecList == InitList /\ [][CallCreateContributorsList]_vars

\* ----------------------------------------------------------- properties
\* the requests of the fetch of Kinds[k], and its full (GET) requests
RequestsOf(k) == SelectSeq(log, LAMBDA e : e.resource = Kinds[k])
GetsOf(k) == SelectSeq(RequestsOf(k), LAMBDA e : e.method = "GET")

RECURSIVE BodiesOf(_)
\* the records of the responses of gets, in the order of the requests
BodiesOf(gets) == IF gets = <<>> THEN <<>>
                  ELSE Head(gets).resp.body \o BodiesOf(Tail(gets))

\* the page count the discovery request of fetch k reported, -1 if it
\* reported none (error, exception, or not yet sent)
Reported(k) ==
    IF RequestsOf(k) = <<>> THEN -1
    ELSE LET r == _api_request("HEAD", RequestsOf(k)[1].resp)
         IN IF r.ok /\ isinstance(r.val, "int") THEN r.val.value ELSE -1

AllOk(gets) == \A i \in 1..Len(gets) : gets[i].resp.kind = "ok"

\* C1: a fetch whose discovery request reported n > 0 pages sends its full
\* requests with page = 1, 2, ... in that order, n of them once it has
\* returned, and returns the pages' records concatenated in page order; a
\* fetch whose discovery reported 0 sends one full request without a page
\* and returns its records as they are.
C1_FullPaginationRetrieval ==
    \A k \in 1..3 :
        LET n == Reported(k)
            gets == GetsOf(k)
            returned == ~isinstance(data[k], "NoneType")
        IN /\ n > 0 =>
                /\ Len(gets) <= n
                /\ \A i \in 1..Len(gets) :
                      "page" \in DOMAIN gets[i].url.qs /\ gets[i].url.qs["page"] = i
                /\ returned => Len(gets) = n
                /\ returned /\ AllOk(gets) => data[k] = List(BodiesOf(gets))
           /\ n = 0 =>
                /\ Len(gets) <= 1
                /\ \A i \in 1..Len(gets) : "page" \notin DOMAIN gets[i].url.qs
                /\ returned => Len(gets) = 1
                /\ returned /\ AllOk(gets) => data[k] = List(gets[1].resp.body)

\* a paginated fetch of commits returned MaxPages pages with different
\* records, and an unpaginated fetch of pulls returned too
C1_Witness ==
    /\ Reported(1) = MaxPages
    /\ isinstance(data[1], "list")
    /\ AllOk(GetsOf(1))
    /\ Len(GetsOf(1)) >= 2
    /\ GetsOf(1)[1].resp.body # GetsOf(1)[2].resp.body
    /\ Reported(2) = 0
    /\ isinstance(data[2], "list")

\* C2: a request that gets a non-2xx status is the last request of its
\* fetch, and the fetch returns the error value with that status code.
C2_HttpErrorShortCircuits ==
    \A i \in 1..Len(log) :
        log[i].resp.kind = "HTTPError" =>
            /\ \A j \in (i + 1)..Len(log) : log[j].resource # log[i].resource
            /\ \E k \in 1..3 : /\ Kinds[k] = log[i].resource
                               /\ data[k] = ErrorDict(log[i].resp.code)

\* C3: a network error without HTTP status on any request makes the fetch
\* return a structured error value; no exception leaves the fetch.
C3_NetworkErrorIsStructured ==
    \A i \in 1..Len(log) :
        log[i].resp.kind = "URLError" =>
            /\ exc = ""
            /\ \E k \in 1..3 : Kinds[k] = log[i].resource /\ IsError(data[k])

Unpopulated ==
    /\ counters = [contributors |-> None, pulls |-> None, issues |-> None]
    /\ contributors_list = <<>>
    /\ commits_sum = 0

C5_InvalidRepoSendsNothing ==
    isinstance(repo.owner, "NoneType") =>
        /\ log = <<>>
        /\ pc # "probe" => prepare = "False"
        /\ counters = [contributors |-> None, pulls |-> None, issues |-> None]

\* C6: after a discovery response whose Link header is not empty and names
\* no last page, the page count is 0 and the fetch goes on to its single
\* full request; nothing is raised.
C6_UnresolvableLinkIsSinglePage ==
    \A i \in 1..Len(log) :
        /\ log[i].method = "HEAD"
        /\ log[i].resp.kind = "ok"
        /\ log[i].resp.link = Str(LinkHeader(<<Rel("next", 2)>>, <<",", " ">>))
        => /\ exc \notin {"UnboundLocalError", "KeyError"}
           /\ i = Len(log) => pc = "retrieve" /\ pages_count = PyInt(0)

\* C7: for a Link header of <url>; rel="name" entries of which one is
\* rel="last", _get_pages_count returns the page parameter of the URL of
\* the (final) last entry, wherever that entry stands and whatever pages
\* the other entries name.
C7_LastEntryPage ==
    pc = "called" /\ call.fn = "_get_pages_count" =>
        LET es == call.entries
            lasts == {i \in 1..Len(es) : es[i].attr = "rel" /\ es[i].name = "last"}
        IN (\A i \in 1..Len(es) : es[i].attr = "rel") /\ lasts # {} =>
               ret = Ok(es[CHOOSE i \in lasts : \A j \in lasts : j <= i].page)

\* the last entry stands first, the entries behind it name other pages
C7_Witness ==
    /\ pc = "called" /\ call.fn = "_get_pages_count"
    /\ Len(call.entries) = 3
    /\ call.entries[1] = Rel("last", BigPage)
    /\ call.entries[2] = Rel("next", 2)
    /\ call.entries[3] = Rel("first", 5)
    /\ ret = Ok(BigPage)

C9_AbsenceCollapsing ==
    pc = "called" /\ call.fn = "count_resources" =>
        LET rs == call.specs
            open == {i \in 1..Len(rs) : rs[i].state = "open"}
            closed == {i \in 1..Len(rs) : rs[i].state = "closed"}
        IN /\ ret.ok
           /\ IF open = {} /\ closed = {} THEN ret.val = None
              ELSE /\ isinstance(ret.val, "Counter")
                   /\ ret.val.opened = Cardinality(open)
                   /\ ret.val.closed = Cardinality(closed)
                   /\ ~(ret.val.opened = 0 /\ ret.val.closed = 0 /\ ret.val.old = 0)

\* a non-empty list of records of another state only yields None
C9_Witness ==
    /\ pc = "called" /\ call.fn = "count_resources"
    /\ Len(call.specs) >= 2
    /\ \A i \in 1..Len(call.specs) : call.specs[i].state = "merged"
    /\ ret = Ok(None)

\* C10: count_contributors keys a commit by the login of its author when
\* the author field has one and by the embedded author name otherwise, and
\* the count of a key is the number of records with that key.
C10_KeyReconciling ==
    pc = "called" /\ call.fn = "count_contributors" =>
        LET cs == call.contributors
            key(co) == IF isinstance(co.author, "dict") THEN co.author.login
                       ELSE co.commit.author.name
        IN (\A i \in 1..Len(cs) : ~isinstance(cs[i].author, "list")) =>
               /\ ret.ok
               /\ \A n \in Names :
                     CounterGet(ret.val.items, n)
                         = Cardinality({i \in 1..Len(cs) : key(cs[i]) = n})

C12_SumAndTruncation ==
    prepare = "True" =>
        /\ commits_sum = SumCommits(counters.contributors.items)
        /\ commits_sum = Len(data[1].items)
        /\ isinstance(table, "list") => Len(table.items) <= contributors_max

KindRank(resource) == IF resource = "commits" THEN 1
                      ELSE IF resource = "pulls" THEN 2 ELSE 3

RECURSIVE Occurrences(_, _)
\* how many rows of the list l carry the author a
Occurrences(l, a) == IF l = <<>> THEN 0
                     ELSE (IF Head(l).author = a THEN 1 ELSE 0)
                          + Occurrences(Tail(l), a)

\* C14: a second successful run on the same presenter against the same API
\* answers leaves contributors_list and commits_sum as the first run left
\* them, with each author in one row of contributors_list.
C14_RunScopedResults ==
    run > 1 /\ prepare = "True" =>
        /\ contributors_list = prev.contributors_list
        /\ commits_sum = prev.commits_sum
        /\ \A i \in 1..Len(contributors_list) :
              Occurrences(contributors_list, contributors_list[i].author) = 1

====
